---------------------------- MODULE Spec2Model ----------------------------
(***************************************************************************)
(* One conversation turn of the agent swarm: invoke_graph (src/graph.py)   *)
(* builds the state dict, the langgraph Graph runs router -> worker ->     *)
(* personality with the two conditional edges, then cleanup_state and the  *)
(* setdefault pass build the returned payload.                             *)
(*                                                                         *)
(* The graph is a langgraph `Graph` (src/graph.py:47), not a StateGraph:   *)
(* the value a node RETURNS is what its outgoing edges and its successor   *)
(* receive.  route_message and the two workers return the dict they were   *)
(* given (the same object, mutated in place); personality_agent returns    *)
(* final_output (src/agents/personality.py:123), a new dict.  So after the *)
(* first personality activation the dict flowing through the graph is no   *)
(* longer the dict invoke_graph holds in `state`.                          *)
(*                                                                         *)
(* Texts are modelled by what the string operations of the code observe:   *)
(* a lowercase, trimmed core, and whether the text carries uppercase       *)
(* letters, surrounding whitespace, or the support worker's suffix.        *)
(***************************************************************************)
EXTENDS Naturals, Sequences, FiniteSets, TLC

VARIABLES
    state,      \* the dict built by invoke_graph (graph.py:171-200)
    flow,       \* the dict returned by the last personality activation
    detached,   \* TRUE once the graph passes `flow` instead of `state`
    pc,         \* the node or edge the executor runs next
    steps,      \* node activations so far in this turn
    obs,        \* the last router activation: its branch, its input, and
                \* the normalized reply or the exception text it received
    dest,       \* the last conditional edge taken and the decision it returned
    errorRaised,\* some step of the turn assigned a truthy error
    result,     \* what invoke_graph returns
    audit,      \* every workflow entry appended so far in this turn, in order
    act,        \* the last worker or personality activation: its outcome,
                \* the text it worked on, the transcript length it found
                \* and the tool calls its executor made
    status,     \* the HTTP status chat_endpoint answers with, 0 before it
    unit,       \* TRUE when one function is called on its own, outside a turn
    again,      \* TRUE in every turn of the process but its first
    request     \* the HTTP request being served, NoRequest for a direct call

vars == <<state, flow, detached, pc, steps, obs, dest, errorRaised, result,
          audit, act, status, unit, again, request>>

---------------------------------------------------------------------------
(* Texts *)

Text(c, u, p) == [core |-> c, up |-> u, pad |-> p, sfx |-> FALSE]
Lit(c) == Text(c, FALSE, FALSE)
NoneT == Lit("<None>")

Lower(t) == [t EXCEPT !.up = FALSE]
Strip(t) == [t EXCEPT !.pad = FALSE]

\* Python truthiness of a str-or-None value: None and "" are falsy.
Truthy(t) == t # NoneT /\ ~(t.core = "" /\ ~t.pad /\ ~t.sfx)

END == Lit("__end__")

\* Phrases that occur in the lowercase form of each text the model uses.
Phrases(c) ==
    CASE c = "thank you your ticket has been created" ->
            {"thank you", "ticket has been created"}
      [] c = "please schedule a call" -> {"call", "schedule"}
      [] c = "your call is booked is there anything else" ->
            {"call", "is there anything", "anything else"}
      [] c = "do you have any other questions or is there anything else i can help you with" ->
            {"other questions", "is there anything", "anything else", "can i help"}
      [] c = "goodbye" -> {"goodbye"}
      [] OTHER -> {}

\* `p in t` for a lowercase phrase p: a text carrying uppercase letters
\* matches only after .lower().
Contains(t, p) ==
    /\ t # NoneT
    /\ ~t.up
    /\ \/ p \in Phrases(t.core)
       \/ t.sfx /\ p \in {"anything else", "is there anything", "can i help"}

---------------------------------------------------------------------------
(* Dicts.  `keys` is the set of keys present; a field whose key is absent  *)
(* holds the canonical value below.                                        *)

StateKeys ==
    {"input", "messages", "next", "error", "agent_outcome", "tool_outputs",
     "tool_usage", "last_tool", "tool_result", "workflow_history",
     "current_agent", "agent_stack", "conversation_active", "needs_followup",
     "is_complete", "task_list", "personality_output", "knowledge_context",
     "support_context"}

NoOutcome == [kind |-> "None", output |-> NoneT]
NoTools ==
    [router_llm |-> <<>>, personality_llm |-> <<>>, rag_search |-> <<>>,
     create_support_ticket |-> <<>>, schedule_support_call |-> <<>>]

Blank ==
    [keys |-> {}, input |-> NoneT, messages |-> <<>>, next |-> NoneT,
     error |-> NoneT, agent_outcome |-> NoOutcome, tool_outputs |-> NoTools,
     tool_usage |-> <<>>, workflow_history |-> <<>>, current_agent |-> "None",
     agent_stack |-> <<>>, conversation_active |-> FALSE,
     needs_followup |-> FALSE, is_complete |-> FALSE, task_list |-> <<>>,
     personality_output |-> "None", knowledge_context |-> "{}",
     support_context |-> "{}", response |-> NoneT,
     source_agent_response |-> NoneT, agent_workflow |-> <<>>]

Has(d, k) == k \in d.keys
With(d, ks) == [d EXCEPT !.keys = @ \cup ks]

\* invoke_graph's initial state
InitialState(message) ==
    [Blank EXCEPT !.keys = StateKeys, !.input = message, !.next = Lit(""),
                  !.conversation_active = TRUE, !.needs_followup = TRUE]

\* d.get("error"), d.get("next", ""), d.get("input", "")
GetError(d) == IF Has(d, "error") THEN d.error ELSE NoneT
GetNext(d) == IF Has(d, "next") THEN d.next ELSE Lit("")
GetInput(d) == IF Has(d, "input") THEN d.input ELSE Lit("")
\* d.get("conversation_active", True), d.get("needs_followup", True)
GetActive(d) == IF Has(d, "conversation_active") THEN d.conversation_active ELSE TRUE
GetFollowup(d) == IF Has(d, "needs_followup") THEN d.needs_followup ELSE TRUE
\* d.get("conversation_active"), d.get("needs_followup"): None when absent
GetActiveOrNone(d) == Has(d, "conversation_active") /\ d.conversation_active
GetFollowupOrNone(d) == Has(d, "needs_followup") /\ d.needs_followup

Entry(agent, action, input, output) ==
    [agent_name |-> agent, action |-> action, input |-> input, output |-> output]

Call(input, output) == [input |-> input, output |-> output]

\* The dict the next node receives, and its replacement after a step.
Cur == IF detached THEN flow ELSE state

\* The entries of `new` after the first Len(old).
NewEntries(old, new) == SubSeq(new, Len(old) + 1, Len(new))

Put(d) ==
    /\ state' = IF detached THEN state ELSE d
    /\ flow' = IF detached THEN d ELSE flow
    /\ audit' = audit \o NewEntries(Cur.workflow_history, d.workflow_history)

---------------------------------------------------------------------------
(* Bounds and the inputs the environment supplies *)

\* Node activations the executor allows before it raises GraphRecursionError
\* (langgraph's recursion_limit; the library default is 25).
MaxSteps == 7

\* Messages handed to invoke_graph.
Messages ==
    {Lit("what services does infinitepay offer"),
     Lit("please schedule a call"),
     Text("bye", TRUE, FALSE),
     Text("bye", FALSE, TRUE),
     Lit("quit")}

\* response.content of the router's completion call.
RouterReplies ==
    {Lit("knowledge"), Text("support", TRUE, TRUE), Text("end", TRUE, TRUE),
     Lit("__end__"), Lit("billing")}

\* str(e) of an exception raised by the router's completion call.
RouterFailures == {Lit("timeout"), Lit("")}

---------------------------------------------------------------------------
(* route_message, src/agents/router.py *)

EndTokens == {Lit("goodbye"), Lit("bye"), Lit("exit"), Lit("quit"), Lit("end")}

\* router.py:95: state.get("input", "").lower() in [...]
IsEndCommandNoLower(s) == GetInput(s) \in EndTokens
IsEndCommand(s) == Lower(GetInput(s)) \in EndTokens

\* router.py:64-92
RouterEnter(s) ==
    [With(s, {"current_agent", "agent_stack", "conversation_active",
              "needs_followup", "task_list", "workflow_history", "tool_outputs"})
       EXCEPT !.current_agent = "router",
              !.agent_stack = Append(s.agent_stack, "router"),
              !.conversation_active = GetActive(s),
              !.needs_followup = GetFollowup(s),
              !.workflow_history =
                  Append(s.workflow_history,
                         Entry("router", "start_routing", GetInput(s), NoneT))]

\* router.py:94-98
RouteFast(s) ==
    [With(RouterEnter(s), {"next"})
       EXCEPT !.conversation_active = FALSE, !.next = END]

\* router.py:108
NormalizeReply(content) == Strip(Lower(content))

\* router.py:110-129
RecordRouterCall(s, na) ==
    [s EXCEPT !.tool_outputs.router_llm = Append(@, Call(s.input, na))]

\* router.py:131-138; the pair is (state, next_agent)
MapReplyUnknownEnds(s, na) ==
    IF na \in {Lit("knowledge"), Lit("support")}
    THEN [s |-> s, na |-> na]
    ELSE [s |-> [s EXCEPT !.conversation_active = FALSE,
                          !.needs_followup = FALSE],
          na |-> END]
MapReplyKeepsFlags(s, na) ==
    IF na = Lit("end")
    THEN [s |-> s, na |-> END]
    ELSE IF na \notin {Lit("knowledge"), Lit("support")}
    THEN [s |-> s, na |-> Lit("support")]
    ELSE [s |-> s, na |-> na]
MapReply(s, na) ==
    IF na = Lit("end")
    THEN [s |-> [s EXCEPT !.conversation_active = FALSE,
                          !.needs_followup = FALSE],
          na |-> END]
    ELSE IF na \notin {Lit("knowledge"), Lit("support")}
    THEN [s |-> s, na |-> Lit("support")]
    ELSE [s |-> s, na |-> na]

CompleteRoutingRecordsReply(s, na) ==
    [s EXCEPT !.workflow_history =
                  Append(@, Entry("router", "complete_routing", s.input,
                                  s.tool_outputs.router_llm[
                                      Len(s.tool_outputs.router_llm)].output))]
\* router.py:140-156
CompleteRouting(s, na) ==
    [s EXCEPT !.workflow_history =
                  Append(@, Entry("router", "complete_routing", s.input, na))]

HandleOutcomeOnKey(s, na) ==
    IF Has(s, "agent_outcome")
    THEN IF GetFollowupOrNone(s)
         THEN [s |-> s, na |-> IF Has(s, "next") THEN s.next ELSE Lit("support")]
         ELSE IF s.task_list # <<>>
         THEN [s |-> [s EXCEPT !.input = Head(s.task_list),
                               !.task_list = Tail(s.task_list)],
               na |-> Lit("support")]
         ELSE [s |-> [s EXCEPT !.conversation_active = FALSE,
                               !.needs_followup = FALSE],
               na |-> END]
    ELSE IF ~GetActiveOrNone(s)
    THEN [s |-> s, na |-> END]
    ELSE [s |-> s, na |-> na]
\* router.py:158-171
HandleOutcome(s, na) ==
    IF Has(s, "agent_outcome") /\ s.agent_outcome.kind # "None"
    THEN IF GetFollowupOrNone(s)
         THEN [s |-> s, na |-> IF Has(s, "next") THEN s.next ELSE Lit("support")]
         ELSE IF s.task_list # <<>>
         THEN [s |-> [s EXCEPT !.input = Head(s.task_list),
                               !.task_list = Tail(s.task_list)],
               na |-> Lit("support")]
         ELSE [s |-> [s EXCEPT !.conversation_active = FALSE,
                               !.needs_followup = FALSE],
               na |-> END]
    ELSE IF ~GetActiveOrNone(s)
    THEN [s |-> s, na |-> END]
    ELSE [s |-> s, na |-> na]

\* router.py:173-181
ValidateAgent(na) ==
    LET n1 == Strip(Lower(na))
        n2 == IF n1 = Lit("end") THEN END ELSE n1
    IN  IF n2 \notin {Lit("knowledge"), Lit("support"), END}
        THEN Lit("support")
        ELSE n2

\* router.py:183-186
PreventAutoEnd(s, na) ==
    IF na = END /\ GetActive(s) /\ GetFollowup(s) THEN Lit("support") ELSE na

\* router.py:100-189, the completion call having returned `content`
RouteReply(s, content) ==
    LET na0 == NormalizeReply(content)
        s1 == RecordRouterCall(RouterEnter(s), na0)
        m == MapReply(s1, na0)
        s2 == CompleteRouting(m.s, m.na)
        h == HandleOutcome(s2, m.na)
        na3 == PreventAutoEnd(h.s, ValidateAgent(h.na))
    IN  [With(h.s, {"next"}) EXCEPT !.next = na3]

\* router.py:191-195, the completion call having raised with str(e) = etxt
RouteFailKeepsNext(s, etxt) ==
    [With(RouterEnter(s), {"error"}) EXCEPT !.error = etxt]
RouteFail(s, etxt) ==
    [With(RouterEnter(s), {"next", "error"})
       EXCEPT !.next = Lit("support"), !.error = etxt]

---------------------------------------------------------------------------
(* The conditional edges, src/graph.py *)

FollowUpPrompt ==
    Text("do you have any other questions or is there anything else i can help you with",
         TRUE, FALSE)

EndIndicators ==
    {"goodbye", "thank you", "thanks", "have a good day", "that's all",
     "ticket has been created", "appointment has been scheduled"}

\* graph.py:57-58 and 101-102
EnsureMessages(d) == With(d, {"messages"})

\* graph.py:55-79; the pair is (decision, state after the edge function)
RouteEdge(d0) ==
    LET d == EnsureMessages(d0)
        n == Strip(Lower(GetNext(d)))
        toSupport == [to |-> Lit("support"),
                      d |-> [With(d, {"next"}) EXCEPT !.next = Lit("support")]]
    IN  IF Truthy(GetError(d)) THEN [to |-> END, d |-> d]
        ELSE IF ~Truthy(GetNext(d)) THEN toSupport
        ELSE IF n \in {Lit("end"), Lit("__end__"), END} THEN [to |-> END, d |-> d]
        ELSE IF n \in {Lit("knowledge"), Lit("support"), Lit("router")}
        THEN [to |-> n, d |-> d]
        ELSE toSupport

\* graph.py:17
LastMessage(d) ==
    IF d.messages # <<>> THEN d.messages[Len(d.messages)] ELSE Lit("")

\* graph.py:6-43
ShouldContinueKeepsInput(d) ==
    IF Truthy(GetError(d)) THEN [to |-> END, d |-> d]
    ELSE IF \E i \in EndIndicators : Contains(Lower(LastMessage(d)), i)
    THEN [to |-> END, d |-> d]
    ELSE IF GetFollowup(d)
    THEN [to |-> Lit("router"),
          d |-> [With(d, {"is_complete"}) EXCEPT !.is_complete = FALSE]]
    ELSE [to |-> END, d |-> d]
ShouldContinue(d) ==
    IF Truthy(GetError(d)) THEN [to |-> END, d |-> d]
    ELSE IF \E i \in EndIndicators : Contains(Lower(LastMessage(d)), i)
    THEN [to |-> END, d |-> d]
    ELSE IF GetFollowup(d)
    THEN [to |-> Lit("router"),
          d |-> [With(d, {"is_complete", "input"})
                   EXCEPT !.is_complete = FALSE, !.input = FollowUpPrompt]]
    ELSE [to |-> END, d |-> d]

\* graph.py:99-128
PersonalityEdge(d0) ==
    LET d == EnsureMessages(d0)
        r == ShouldContinue(d)
    IN  IF Truthy(GetError(d)) THEN [to |-> END, d |-> d]
        ELSE IF r.to = Lit("router")
        THEN [to |-> r.to,
              d |-> [With(r.d, {"tool_result", "last_tool", "agent_outcome",
                                "current_agent"})
                       EXCEPT !.agent_outcome = NoOutcome,
                              !.current_agent = "router"]]
        ELSE [to |-> r.to,
              d |-> [With(r.d, {"knowledge_context", "support_context"})
                       EXCEPT !.knowledge_context = "{}",
                              !.support_context = "cleared"]]

---------------------------------------------------------------------------
(* The tools, src/tools.py.  A call is [tool, out]: the tool and the text  *)
(* it returned.                                                            *)

Tools == {"rag_search", "create_support_ticket", "schedule_support_call"}

\* The "input" a tool writes under tool_outputs[tool]: its arguments.
ToolArguments(tool) ==
    CASE tool = "rag_search" -> Lit("{query}")
      [] tool = "create_support_ticket" ->
            Lit("{issue_description, priority, category}")
      [] tool = "schedule_support_call" ->
            Lit("{preferred_date, preferred_time, issue_summary, call_type}")

\* The "input" a tool writes into tool_usage: rag_search its arguments, the
\* other two the record they built (ticket_data, appointment_data).
ToolUsageInput(tool) ==
    CASE tool = "rag_search" -> Lit("{query}")
      [] tool = "create_support_ticket" -> Lit("ticket_data")
      [] tool = "schedule_support_call" -> Lit("appointment_data")

\* One successful tool call.  `given` says whether the caller passed the
\* state: the ledger is written only `if state is not None`.
ToolCall(s, given, c) ==
    IF ~given THEN s
    ELSE [With(s, {"tool_outputs", "tool_usage", "last_tool", "tool_result"})
            EXCEPT !.tool_outputs[c.tool] = Append(@, Call(ToolArguments(c.tool), c.out)),
                   !.tool_usage =
                       Append(@, [tool |-> c.tool, input |-> ToolUsageInput(c.tool),
                                  output |-> c.out])]

\* agent_executor.invoke (knowledge.py:103, support.py:176): the executor
\* calls each tool with the arguments the completion service wrote, which
\* never include the state, so `state` keeps its default None.
RECURSIVE RunTools(_, _)
RunTools(s, calls) ==
    IF calls = <<>> THEN s
    ELSE RunTools(ToolCall(s, FALSE, Head(calls)), Tail(calls))

\* What the retrieval service does during one rag_search call: it works, or
\* FAISS.load_local fails, or building the index from the PDF fails, or the
\* similarity search or the completion call of query fails.
RetrievalFaults == {"none", "load", "build", "query"}

RagSearchError == Text("rag search error", TRUE, FALSE)

\* tools.py:8-54: RAGManager() and load_or_create_vectorstore() are called
\* (lines 20-21) before the try, rag_manager.query(query) inside it.  `raised` says the
\* call left the tool by an exception, `out` is the text it returned.
RagSearch(fault) ==
    IF fault \in {"load", "build"} THEN [raised |-> TRUE, out |-> NoneT]
    ELSE IF fault = "query" THEN [raised |-> FALSE, out |-> RagSearchError]
    ELSE [raised |-> FALSE, out |-> Lit("card terminals and payment links")]

RagCall(fault) ==
    [tool |-> "rag_search", out |-> RagSearch(fault).out, fault |-> fault,
     raised |-> RagSearch(fault).raised]

\* The tool calls one executor run makes and gets an answer from.
KnowledgeCalls ==
    {<<>>} \cup {<<RagCall(f)>> : f \in {g \in RetrievalFaults : ~RagSearch(g).raised}}
\* The tool calls of an executor run that raises: none when the completion
\* service fails, or the call whose exception the executor passes on
\* (the tools set no handle_tool_error).
KnowledgeRaisingCalls ==
    {<<>>} \cup {<<RagCall(f)>> : f \in {g \in RetrievalFaults : RagSearch(g).raised}}
\* A date as strptime("%Y-%m-%d") and weekday() see it, a time as
\* strptime("%H:%M") and .hour see it; weekday 0 is Monday.
Monday == [ok |-> TRUE, weekday |-> 0]
Saturday == [ok |-> TRUE, weekday |-> 5]
BadDate == [ok |-> FALSE, weekday |-> 0]
HalfPastTwo == [ok |-> TRUE, hour |-> 14]
EightOClock == [ok |-> TRUE, hour |-> 8]
BadTime == [ok |-> FALSE, hour |-> 0]

\* The preferred_date and preferred_time of the customer's request
\* (request_data in two.json), which the worker writes into its tool_input.
RequestedSlots ==
    {<<Monday, HalfPastTwo>>, <<Monday, EightOClock>>, <<Saturday, HalfPastTwo>>,
     <<BadDate, HalfPastTwo>>, <<Monday, BadTime>>}

FormatError == Lit("error: date format (yyyy-mm-dd) and time format (hh:mm) required")
HoursError == Lit("error: time must be between 9:00 am and 5:00 pm")
WeekdayError == Lit("error: appointments only on weekdays")
Scheduled == Lit("support call scheduled successfully")
NoAppointment == [date |-> BadDate, time |-> BadTime]

ScheduleSupportCallAsRequested(date, time) ==
    LET preferred_date == date
        preferred_time == time
    IN  IF ~preferred_date.ok \/ ~preferred_time.ok
        THEN [out |-> FormatError, appointment |-> NoAppointment]
        ELSE IF preferred_time.hour < 9 \/ preferred_time.hour >= 17
        THEN [out |-> HoursError, appointment |-> NoAppointment]
        ELSE [out |-> Scheduled,
              appointment |-> [date |-> preferred_date, time |-> preferred_time]]
\* tools.py:119-204 for a call made for a request of (date, time).  The
\* tool has no date or time parameter: it assigns "2025-05-26" (a Monday)
\* and "14:30" itself (tools.py:140-141) and checks those.
ScheduleSupportCall(date, time) ==
    LET preferred_date == Monday
        preferred_time == HalfPastTwo
    IN  IF ~preferred_date.ok \/ ~preferred_time.ok
        THEN [out |-> FormatError, appointment |-> NoAppointment]
        ELSE IF preferred_time.hour < 9 \/ preferred_time.hour >= 17
        THEN [out |-> HoursError, appointment |-> NoAppointment]
        ELSE IF preferred_date.weekday >= 5
        THEN [out |-> WeekdayError, appointment |-> NoAppointment]
        ELSE [out |-> Scheduled,
              appointment |-> [date |-> preferred_date, time |-> preferred_time]]

SupportCalls ==
    {<<>>,
     <<[tool |-> "create_support_ticket", out |-> Lit("support ticket created successfully")]>>}
    \cup {<<[tool |-> "schedule_support_call",
             out |-> ScheduleSupportCall(r[1], r[2]).out,
             date |-> r[1], time |-> r[2],
             appointment |-> ScheduleSupportCall(r[1], r[2]).appointment]>> :
             r \in RequestedSlots}

---------------------------------------------------------------------------
(* knowledge_agent, src/agents/knowledge.py *)

\* response["output"] of the knowledge executor.
KnowledgeOutputs == {Lit("infinitepay offers card terminals"), Lit("")}

KnowledgeError == Text("error in knowledge agent", TRUE, FALSE)
KnowledgeApology ==
    Text("i apologize, but i encountered an error while retrieving the information",
         TRUE, FALSE)

\* knowledge.py:25-46
KnowledgeEnter(s) ==
    [With(s, {"current_agent", "agent_stack", "tool_outputs",
              "workflow_history", "knowledge_context"})
       EXCEPT !.current_agent = "knowledge",
              !.agent_stack = Append(s.agent_stack, "knowledge"),
              !.workflow_history =
                  Append(s.workflow_history,
                         Entry("knowledge", "start_query", s.input, NoneT))]

\* knowledge.py:102-157: the executor made `calls` and returned `out`; it
\* returns no intermediate_steps, so tool_calls stays empty
KnowledgeOk(s, out, calls) ==
    LET s1 == RunTools(KnowledgeEnter(s), calls)
    IN  [With(s1, {"messages", "agent_outcome", "error", "needs_followup",
                   "is_complete", "conversation_active"})
           EXCEPT !.workflow_history =
                      Append(@, Entry("knowledge", "complete_query", s1.input, out)),
                  !.messages = Append(@, out),
                  !.agent_outcome = [kind |-> "AgentFinish", output |-> out],
                  !.error = NoneT,
                  !.needs_followup = TRUE,
                  !.is_complete = TRUE,
                  !.conversation_active = TRUE]

\* knowledge.py:159-168
KnowledgeFail(s) ==
    [With(KnowledgeEnter(s), {"error", "messages", "needs_followup"})
       EXCEPT !.error = KnowledgeError,
              !.messages = Append(@, KnowledgeApology),
              !.needs_followup = TRUE]

---------------------------------------------------------------------------
(* customer_support_agent, src/agents/support.py *)

CallKeywords ==
    {"call", "schedule", "appointment", "meeting", "talk", "discuss", "phone",
     "speak", "consultation", "demo", "training", "walkthrough", "setup"}

\* support.py:29
Intent(input) ==
    IF \E k \in CallKeywords : Contains(Lower(input), k)
    THEN "schedule_call" ELSE "create_ticket"

\* What json.load of the customer file gives: a load error, a record whose
\* request_data lookups raise KeyError (broken), or request_data with some
\* of the three call fields absent.
CustomerFiles ==
    {[ok |-> FALSE, broken |-> FALSE, missing |-> {}],
     [ok |-> TRUE, broken |-> TRUE, missing |-> {}],
     [ok |-> TRUE, broken |-> FALSE, missing |-> {}],
     [ok |-> TRUE, broken |-> FALSE, missing |-> {"preferred time", "preferred date"}],
     [ok |-> TRUE, broken |-> FALSE,
      missing |-> {"preferred time", "issue summary", "preferred date"}]}

\* support.py:33: create_ticket reads one.json, which has no call fields;
\* schedule_call reads two.json
FilesFor(intent) ==
    IF intent = "schedule_call" THEN CustomerFiles
    ELSE {f \in CustomerFiles : f.missing = {}}

\* support.py:138-173: the tool_input names the tool of the intent; the
\* executor calls that tool or none
SupportCallsFor(intent) ==
    {q \in SupportCalls :
        \/ q = <<>>
        \/ q[1].tool = (IF intent = "schedule_call" THEN "schedule_support_call"
                        ELSE "create_support_ticket")}

\* response["output"] of the support executor.
SupportOutputs ==
    {Lit("thank you your ticket has been created"),
     Lit("your call is booked is there anything else")}

FollowUpPhrases ==
    {"anything else", "other questions", "can i help", "need clarification",
     "is there anything"}

LoadError == Text("error loading customer data", TRUE, FALSE)
LoadApology == Text("i apologize, but i encountered an issue", TRUE, FALSE)
SupportError == Text("error in customer support agent", TRUE, FALSE)
SupportApology == Text("i apologize, but i need some additional information", TRUE, FALSE)

\* support.py:149-156, in the order the code appends
RECURSIVE Join(_)
Join(q) ==
    IF q = <<>> THEN ""
    ELSE IF Len(q) = 1 THEN q[1]
    ELSE q[1] \o ", " \o Join(Tail(q))
MissingFields(f) ==
    SelectSeq(<<"preferred time", "issue summary", "preferred date">>,
              LAMBDA x : x \in f.missing)

\* support.py:51-74
SupportEnter(s) ==
    [With(s, {"current_agent", "agent_stack", "tool_outputs",
              "workflow_history", "support_context"})
       EXCEPT !.current_agent = "support",
              !.agent_stack = Append(s.agent_stack, "support"),
              !.support_context =
                  IF Has(s, "support_context") THEN s.support_context ELSE "cleared",
              !.workflow_history =
                  Append(s.workflow_history,
                         Entry("support", "handle_request", s.input, NoneT))]

\* support.py:79-85
SupportLoadError(s) ==
    [With(SupportEnter(s), {"error", "messages"})
       EXCEPT !.error = LoadError, !.messages = Append(@, LoadApology)]

\* support.py:158-165
SupportMissing(s, f) ==
    [With(SupportEnter(s), {"error", "messages", "needs_followup"})
       EXCEPT !.error = Text("missing required fields: " \o Join(MissingFields(f)),
                             TRUE, FALSE),
              !.messages = Append(@, Text("please provide: " \o Join(MissingFields(f)),
                                          TRUE, FALSE)),
              !.needs_followup = TRUE]

\* support.py:189-194
WithFollowUp(out) ==
    IF \E p \in FollowUpPhrases : Contains(Lower(out), p)
    THEN out ELSE [out EXCEPT !.sfx = TRUE]

SupportOkTwoMessages(s, out, calls) ==
    LET s1 == RunTools(SupportEnter(s), calls)
    IN  [With(s1, {"messages", "agent_outcome", "error", "needs_followup",
                   "is_complete"})
           EXCEPT !.workflow_history =
                      Append(@, Entry("support", "tool_calls", NoneT, NoneT)),
                  !.messages = Append(Append(@, out), WithFollowUp(out)),
                  !.agent_outcome = [kind |-> "dict", output |-> out],
                  !.error = NoneT,
                  !.needs_followup = TRUE,
                  !.is_complete = TRUE]
\* support.py:176-201: the executor made `calls` and returned `out`
SupportOk(s, out, calls) ==
    LET s1 == RunTools(SupportEnter(s), calls)
    IN  [With(s1, {"messages", "agent_outcome", "error", "needs_followup",
                   "is_complete"})
           EXCEPT !.workflow_history =
                      Append(@, Entry("support", "tool_calls", NoneT, NoneT)),
                  !.messages = Append(@, WithFollowUp(out)),
                  !.agent_outcome = [kind |-> "dict", output |-> out],
                  !.error = NoneT,
                  !.needs_followup = TRUE,
                  !.is_complete = TRUE]

SupportFailDropsLedger(s) ==
    [With(SupportEnter(s), {"error", "messages", "needs_followup"})
       EXCEPT !.error = SupportError,
              !.messages = Append(@, SupportApology),
              !.needs_followup = TRUE,
              !.workflow_history =
                  Append(@, Entry("support", "error_handling", NoneT, SupportError)),
              !.tool_outputs = NoTools,
              !.support_context = "cleared"]
\* support.py:203-235
SupportFail(s) ==
    [With(SupportEnter(s), {"error", "messages", "needs_followup"})
       EXCEPT !.error = SupportError,
              !.messages = Append(@, SupportApology),
              !.needs_followup = TRUE,
              !.workflow_history =
                  Append(@, Entry("support", "error_handling", NoneT, SupportError)),
              !.tool_outputs.create_support_ticket = <<>>,
              !.tool_outputs.schedule_support_call = <<>>,
              !.support_context = "cleared"]

---------------------------------------------------------------------------
(* personality_agent, src/agents/personality.py *)

\* result.content of the personality completion call.
PersonalityReplies ==
    {Lit("happy to help here are the details"),
     Text("thank you your ticket has been created", TRUE, FALSE)}

PersonalityError == Text("error in personality agent", TRUE, FALSE)
PersonalityApology ==
    Text("i apologize, but i'm having trouble formatting the response", TRUE, FALSE)

\* personality.py:57-64; `"output" in agent_outcome` holds for the support
\* worker's dict and not for the knowledge worker's AgentFinish
OriginalResponse(s) ==
    IF Has(s, "agent_outcome") /\ s.agent_outcome.kind = "dict"
    THEN s.agent_outcome.output
    ELSE IF Has(s, "messages") /\ s.messages # <<>>
    THEN s.messages[Len(s.messages)]
    ELSE Lit("")

\* personality.py:95-102
FinalOutput(s, transformed, original, workflow) ==
    [Blank EXCEPT !.keys = {"response", "source_agent_response", "agent_workflow",
                            "conversation_active", "needs_followup", "error"},
                  !.response = transformed,
                  !.source_agent_response = original,
                  !.agent_workflow = workflow,
                  !.conversation_active = GetActive(s),
                  !.needs_followup = GetFollowup(s),
                  !.error = GetError(s)]

\* personality.py:49-123: `reply` is the completion call's text, used only
\* when the original response is non-empty.  The pair is (the state the
\* agent was given, as it leaves it; the dict it returns).  final_output's
\* agent_workflow is the workflow_history list itself, so the entry appended
\* at line 115 is in it too.
PersonalityOk(s, reply) ==
    LET original == OriginalResponse(s)
        transformed == IF Truthy(original) THEN reply ELSE original
        e == Entry("personality", "enhance_response", original, transformed)
        history == s.workflow_history \o <<e, e>>
        s1 == [With(s, {"personality_config", "personality_output"})
                 EXCEPT !.tool_outputs.personality_llm =
                            IF Truthy(original)
                            THEN <<Call(original, transformed)>> ELSE @,
                        !.workflow_history = history,
                        !.messages = Append(@, transformed),
                        !.personality_output = "final_output",
                        !.current_agent = "personality",
                        !.agent_stack = Append(@, "personality")]
    IN  [s |-> s1, out |-> FinalOutput(s, transformed, original, history)]

FallbackOutputNoSource(original) ==
    [Blank EXCEPT !.keys = {"response", "source_agent_response", "agent_workflow",
                            "conversation_active", "needs_followup"},
                  !.response = PersonalityApology,
                  !.source_agent_response = Lit(""),
                  !.agent_workflow = <<Entry("error", "None", NoneT, NoneT)>>,
                  !.conversation_active = TRUE,
                  !.needs_followup = TRUE]
\* personality.py:125-137: the completion call raised
FallbackOutput(original) ==
    [Blank EXCEPT !.keys = {"response", "source_agent_response", "agent_workflow",
                            "conversation_active", "needs_followup"},
                  !.response = PersonalityApology,
                  !.source_agent_response = original,
                  !.agent_workflow = <<Entry("error", "None", NoneT, NoneT)>>,
                  !.conversation_active = TRUE,
                  !.needs_followup = TRUE]
PersonalityFail(s) ==
    [s |-> [With(s, {"personality_config", "error"})
              EXCEPT !.error = PersonalityError],
     out |-> FallbackOutput(OriginalResponse(s))]

---------------------------------------------------------------------------
(* cleanup_state and the end of invoke_graph, src/graph.py *)

CleanupStateKeepsActive(s) ==
    LET popped == IF s.agent_stack # <<>>
                  THEN SubSeq(s.agent_stack, 1, Len(s.agent_stack) - 1)
                  ELSE s.agent_stack
        top == IF s.agent_stack = <<>> THEN s.current_agent
               ELSE IF popped # <<>> THEN popped[Len(popped)] ELSE "None"
        done == Has(s, "is_complete") /\ s.is_complete
    IN  [s EXCEPT !.agent_stack = popped,
                  !.current_agent = top,
                  !.knowledge_context = IF done THEN "{}" ELSE @,
                  !.support_context = IF done THEN "{}" ELSE @,
                  !.conversation_active =
                      IF s.task_list = <<>> /\ ~GetFollowupOrNone(s) THEN FALSE
                      ELSE @,
                  !.needs_followup = IF Truthy(GetError(s)) THEN FALSE ELSE @]
CleanupStateKeepsCurrent(s) ==
    LET popped == IF s.agent_stack # <<>>
                  THEN SubSeq(s.agent_stack, 1, Len(s.agent_stack) - 1)
                  ELSE s.agent_stack
        done == Has(s, "is_complete") /\ s.is_complete
    IN  [s EXCEPT !.agent_stack = popped,
                  !.knowledge_context = IF done THEN "{}" ELSE @,
                  !.support_context = IF done THEN "{}" ELSE @,
                  !.conversation_active =
                      IF Truthy(GetError(s)) THEN FALSE
                      ELSE IF s.task_list = <<>> /\ ~GetFollowupOrNone(s) THEN FALSE
                      ELSE @,
                  !.needs_followup = IF Truthy(GetError(s)) THEN FALSE ELSE @]
\* graph.py:145-165
CleanupState(s) ==
    LET popped == IF s.agent_stack # <<>>
                  THEN SubSeq(s.agent_stack, 1, Len(s.agent_stack) - 1)
                  ELSE s.agent_stack
        top == IF s.agent_stack = <<>> THEN s.current_agent
               ELSE IF popped # <<>> THEN popped[Len(popped)] ELSE "None"
        done == Has(s, "is_complete") /\ s.is_complete
    IN  [s EXCEPT !.agent_stack = popped,
                  !.current_agent = top,
                  !.knowledge_context = IF done THEN "{}" ELSE @,
                  !.support_context = IF done THEN "{}" ELSE @,
                  !.conversation_active =
                      IF Truthy(GetError(s)) THEN FALSE
                      ELSE IF s.task_list = <<>> /\ ~GetFollowupOrNone(s) THEN FALSE
                      ELSE @,
                  !.needs_followup = IF Truthy(GetError(s)) THEN FALSE ELSE @]

\* A value of app.invoke that is not a dict.
NotADict == [Blank EXCEPT !.keys = {"<not a dict>"}]
IsDict(r) == "<not a dict>" \notin r.keys

\* graph.py:211-221: the payload built when the graph's result is not a dict
InvalidResult(st) ==
    [Blank EXCEPT !.keys = {"response", "source_agent_response", "messages",
                            "conversation_active", "needs_followup",
                            "agent_workflow", "error", "is_complete"},
                  !.response = Text("an error occurred processing your request",
                                    TRUE, FALSE),
                  !.source_agent_response = Lit(""),
                  !.conversation_active = FALSE,
                  !.needs_followup = FALSE,
                  !.agent_workflow =
                      IF Has(st, "workflow_history") THEN st.workflow_history ELSE <<>>,
                  !.error = Text("invalid result type", TRUE, FALSE),
                  !.is_complete = TRUE]

SetDefaultsNoError(r, st) ==
    [With(r, {"response", "source_agent_response", "messages",
              "conversation_active", "needs_followup", "agent_workflow",
              "is_complete"})
       EXCEPT !.response = IF Has(r, "response") THEN @ ELSE Lit(""),
              !.source_agent_response =
                  IF Has(r, "source_agent_response") THEN @ ELSE Lit(""),
              !.conversation_active = GetActive(r),
              !.needs_followup = GetFollowup(r),
              !.agent_workflow =
                  IF Has(r, "agent_workflow") THEN @ ELSE st.workflow_history]
\* graph.py:223-231: result.setdefault(...) for each required field
SetDefaults(r, st) ==
    [With(r, {"response", "source_agent_response", "messages",
              "conversation_active", "needs_followup", "agent_workflow",
              "error", "is_complete"})
       EXCEPT !.response = IF Has(r, "response") THEN @ ELSE Lit(""),
              !.source_agent_response =
                  IF Has(r, "source_agent_response") THEN @ ELSE Lit(""),
              !.conversation_active = GetActive(r),
              !.needs_followup = GetFollowup(r),
              !.agent_workflow =
                  IF Has(r, "agent_workflow") THEN @ ELSE st.workflow_history]

---------------------------------------------------------------------------
(* chat_endpoint, src/api.py *)

\* api.py:54-58: validate_responses on `response` and `source_agent_response`
ValidateResponses(v) == Truthy(v) /\ Truthy(Strip(v))

\* api.py:73-103 for a value returned by invoke_graph: a value that is not
\* a dict, an empty response and a ChatResponse the validators reject are
\* all ValueErrors, answered 400
ChatStatus(r) ==
    IF ~IsDict(r) THEN 400
    ELSE IF ~(Has(r, "response") /\ Truthy(r.response)) THEN 400
    ELSE IF ~(ValidateResponses(r.response)
              /\ ValidateResponses(IF Has(r, "source_agent_response")
                                   THEN r.source_agent_response ELSE Lit("")))
    THEN 400
    ELSE 200

\* api.py:88-95: the fields of the ChatResponse
ChatResponse(r) ==
    [response |-> r.response,
     source_agent_response |-> r.source_agent_response,
     agent_workflow |-> IF Has(r, "agent_workflow") THEN r.agent_workflow ELSE <<>>,
     conversation_active |-> GetActive(r),
     needs_followup |-> GetFollowup(r),
     error |-> GetError(r)]

---------------------------------------------------------------------------
(* The executor: one action per node, edge and driver step *)

NoObs == [kind |-> "none", input |-> NoneT, reply |-> NoneT]
NoRequest == [message |-> NoneT, user_id |-> NoneT]
NoFile == [ok |-> FALSE, broken |-> FALSE, missing |-> {"<no file>"}]
NoAct == [node |-> "none", kind |-> "none", out |-> NoneT, before |-> 0,
          calls |-> <<>>, file |-> NoFile]

\* What a worker or personality activation leaves in `act`; `file` is the
\* customer file a support activation read.
ActedOn(node, kind, out, calls, file) ==
    act' = [node |-> node, kind |-> kind, out |-> out,
            before |-> Len(Cur.messages), calls |-> calls, file |-> file]
Acted(node, kind, out, calls) == ActedOn(node, kind, out, calls, NoFile)

Nodes == {"router", "knowledge", "support", "personality"}

\* graph.py:167-205: invoke_graph builds the state; the entry point is the router
Init ==
    /\ \E m \in Messages : state = InitialState(m)
    /\ flow = Blank
    /\ detached = FALSE
    /\ pc = "router"
    /\ steps = 0
    /\ obs = NoObs
    /\ dest = [from |-> "none", to |-> NoneT]
    /\ errorRaised = FALSE
    /\ result = Blank
    /\ audit = <<>>
    /\ act = NoAct
    /\ status = 0
    /\ unit = FALSE
    /\ again = FALSE
    /\ request = NoRequest

Router ==
    /\ pc = "router"
    /\ steps < MaxSteps
    /\ \/ /\ IsEndCommand(Cur)
          /\ Put(RouteFast(Cur))
          /\ obs' = [kind |-> "fast", input |-> GetInput(Cur), reply |-> NoneT]
          /\ UNCHANGED errorRaised
       \/ /\ ~IsEndCommand(Cur)
          /\ \E c \in RouterReplies :
                /\ Put(RouteReply(Cur, c))
                /\ obs' = [kind |-> "reply", input |-> GetInput(Cur),
                           reply |-> NormalizeReply(c)]
          /\ UNCHANGED errorRaised
       \/ /\ ~IsEndCommand(Cur)
          /\ \E e \in RouterFailures :
                /\ Put(RouteFail(Cur, e))
                /\ errorRaised' = (errorRaised \/ Truthy(e))
                /\ obs' = [kind |-> "fail", input |-> GetInput(Cur), reply |-> e]
    /\ pc' = "route_edge"
    /\ steps' = steps + 1
    /\ UNCHANGED <<detached, dest, result, act, status, unit, again, request>>

\* graph.py:81-91: the conditional edge out of the router
RouterEdge ==
    /\ pc = "route_edge"
    /\ LET r == RouteEdge(Cur)
       IN  /\ Put(r.d)
           /\ dest' = [from |-> "route_edge", to |-> r.to]
           /\ pc' = r.to.core
    /\ UNCHANGED <<detached, steps, obs, errorRaised, result, act, status, unit, again, request>>

Knowledge ==
    /\ pc = "knowledge"
    /\ steps < MaxSteps
    /\ \/ /\ \E out \in KnowledgeOutputs, calls \in KnowledgeCalls :
                /\ Put(KnowledgeOk(Cur, out, calls))
                /\ Acted("knowledge", "ok", out, calls)
          /\ pc' = "personality"
          /\ UNCHANGED errorRaised
       \/ /\ Put(KnowledgeFail(Cur))
          /\ \E calls \in KnowledgeRaisingCalls :
                Acted("knowledge", "fail", NoneT, calls)
          /\ pc' = "personality"
          /\ errorRaised' = TRUE
       \/ \* knowledge.py:49-99 run outside the try: an exception there leaves the node
          /\ Put(KnowledgeEnter(Cur))
          /\ Acted("knowledge", "raised", NoneT, <<>>)
          /\ pc' = "raised"
          /\ UNCHANGED errorRaised
    /\ steps' = steps + 1
    /\ UNCHANGED <<detached, obs, dest, result, status, unit, again, request>>

Support ==
    /\ pc = "support"
    /\ steps < MaxSteps
    /\ \E f \in FilesFor(Intent(Cur.input)) :
          \/ /\ ~f.ok
             /\ Put(SupportLoadError(Cur))
             /\ ActedOn("support", "load_error", NoneT, <<>>, f)
             /\ pc' = "personality"
             /\ errorRaised' = TRUE
          \/ \* support.py:122-135 run outside the try
             /\ f.ok
             /\ Put(SupportEnter(Cur))
             /\ ActedOn("support", "raised", NoneT, <<>>, f)
             /\ pc' = "raised"
             /\ UNCHANGED errorRaised
          \/ /\ f.ok /\ ~f.broken
             /\ Intent(Cur.input) = "schedule_call" /\ f.missing # {}
             /\ Put(SupportMissing(Cur, f))
             /\ ActedOn("support", "missing", NoneT, <<>>, f)
             /\ pc' = "personality"
             /\ errorRaised' = TRUE
          \/ /\ f.ok /\ ~f.broken
             /\ Intent(Cur.input) = "create_ticket" \/ f.missing = {}
             /\ \E out \in SupportOutputs, calls \in SupportCallsFor(Intent(Cur.input)) :
                   /\ Put(SupportOk(Cur, out, calls))
                   /\ ActedOn("support", "ok", out, calls, f)
             /\ pc' = "personality"
             /\ UNCHANGED errorRaised
          \/ \* a KeyError on the customer record, or the executor raising
             /\ f.ok
             /\ f.broken \/ Intent(Cur.input) = "create_ticket" \/ f.missing = {}
             /\ Put(SupportFail(Cur))
             /\ ActedOn("support", "fail", NoneT, <<>>, f)
             /\ pc' = "personality"
             /\ errorRaised' = TRUE
    /\ steps' = steps + 1
    /\ UNCHANGED <<detached, obs, dest, result, status, unit, again, request>>

\* The dict personality_agent returns replaces the one the graph passes on.
Return(r) ==
    /\ state' = IF detached THEN state ELSE r.s
    /\ flow' = r.out
    /\ detached' = TRUE
    /\ audit' = audit \o NewEntries(Cur.workflow_history, r.s.workflow_history)

Personality ==
    /\ pc = "personality"
    /\ steps < MaxSteps
    /\ \/ /\ Truthy(OriginalResponse(Cur))
          /\ \E reply \in PersonalityReplies : Return(PersonalityOk(Cur, reply))
          /\ Acted("personality", "ok", OriginalResponse(Cur), <<>>)
          /\ UNCHANGED errorRaised
       \/ /\ ~Truthy(OriginalResponse(Cur))
          /\ Return(PersonalityOk(Cur, Lit("")))
          /\ Acted("personality", "ok", OriginalResponse(Cur), <<>>)
          /\ UNCHANGED errorRaised
       \/ /\ Truthy(OriginalResponse(Cur))
          /\ Return(PersonalityFail(Cur))
          /\ Acted("personality", "fail", OriginalResponse(Cur), <<>>)
          /\ errorRaised' = TRUE
    /\ pc' = IF unit THEN "returned" ELSE "personality_edge"
    /\ steps' = steps + 1
    /\ UNCHANGED <<obs, dest, result, status, unit, again, request>>

\* graph.py:130-138: the conditional edge out of personality
PersonalityEdgeStep ==
    /\ pc = "personality_edge"
    /\ LET r == PersonalityEdge(Cur)
       IN  /\ Put(r.d)
           /\ dest' = [from |-> "personality_edge", to |-> r.to]
           /\ pc' = r.to.core
    /\ UNCHANGED <<detached, steps, obs, errorRaised, result, act, status, unit, again, request>>

\* The executor is out of steps with a node still to run: app.invoke raises
\* GraphRecursionError and invoke_graph returns nothing.
RecursionError ==
    /\ pc \in Nodes
    /\ steps >= MaxSteps
    /\ pc' = "out_of_steps"
    /\ UNCHANGED <<state, flow, detached, steps, obs, dest, errorRaised, result,
                   audit, act, status, unit, again, request>>

\* graph.py:205-233: the graph reached END; app.invoke returns the dict last
\* written there, which is the dict the graph was passing
Finish ==
    /\ pc = "__end__"
    /\ LET st == CleanupState(state)
           got == IF detached THEN flow ELSE st
           res == IF IsDict(got) THEN SetDefaults(got, st) ELSE InvalidResult(st)
       IN  /\ state' = IF detached THEN st ELSE res
           /\ flow' = IF detached /\ IsDict(got) THEN res ELSE flow
           /\ result' = res
    /\ pc' = "done"
    /\ UNCHANGED <<detached, steps, obs, dest, errorRaised, audit, act, status, unit, again, request>>

\* api.py:73-103: chat_endpoint answers once invoke_graph has returned or
\* raised.  An exception out of invoke_graph is answered 400 when it is a
\* ValueError and 500 otherwise; GraphRecursionError is not a ValueError.
ChatEndpoint ==
    /\ ~unit
    /\ status = 0
    /\ \/ /\ pc = "done"
          /\ status' = ChatStatus(result)
       \/ /\ pc = "raised"
          /\ status' \in {400, 500}
       \/ /\ pc = "out_of_steps"
          /\ status' = 500
    /\ UNCHANGED <<state, flow, detached, pc, steps, obs, dest, errorRaised,
                   result, audit, act, unit, again, request>>

Next ==
    \/ Router
    \/ RouterEdge
    \/ Knowledge
    \/ Support
    \/ Personality
    \/ PersonalityEdgeStep
    \/ RecursionError
    \/ Finish
    \/ ChatEndpoint

Spec == Init /\ [][Next]_vars

---------------------------------------------------------------------------
(* One function called on its own: personality_agent on a state, and the  *)
(* end of invoke_graph on a value of app.invoke.                           *)

\* States handed to personality_agent: the outcome unset or set by either
\* worker, the transcript empty or holding the worker's answer.
FormatterStates ==
    {[InitialState(m) EXCEPT !.agent_outcome = t[1], !.messages = t[2]] :
        m \in Messages,
        t \in {<<NoOutcome, <<>>>>,
               <<NoOutcome, <<Lit("goodbye")>>>>,
               <<[kind |-> "AgentFinish", output |-> Lit("goodbye")], <<Lit("goodbye")>>>>,
               <<[kind |-> "dict", output |-> Lit("goodbye")],
                 <<[Lit("goodbye") EXCEPT !.sfx = TRUE]>>>>}}

\* The state invoke_graph holds when app.invoke returns.
DriverStates ==
    {[InitialState(m) EXCEPT !.error = e, !.is_complete = c] :
        m \in Messages, e \in {NoneT, Lit("timeout")}, c \in BOOLEAN}

\* Values of app.invoke: not a dict, an empty dict, the formatter's dicts.
GraphResults ==
    {NotADict, Blank, FallbackOutput(Lit("goodbye")),
     FinalOutput(InitialState(Lit("quit")), Lit("goodbye"), Lit("goodbye"), <<>>)}

UnitInit ==
    /\ unit = TRUE
    /\ again = FALSE
    /\ request = NoRequest
    /\ steps = 0
    /\ obs = NoObs
    /\ dest = [from |-> "none", to |-> NoneT]
    /\ errorRaised = FALSE
    /\ result = Blank
    /\ audit = <<>>
    /\ act = NoAct
    /\ status = 0
    /\ \/ /\ pc = "personality"
          /\ state \in FormatterStates
          /\ flow = Blank
          /\ detached = FALSE
       \/ /\ pc = "__end__"
          /\ state \in DriverStates
          /\ flow \in GraphResults
          /\ detached = TRUE

\* The turns of Spec together with the calls of single functions.
UnitSpec == (Init \/ UnitInit) /\ [][Next]_vars

---------------------------------------------------------------------------
(* More than one turn in a process.  chat_endpoint is an `async def` that *)
(* calls the synchronous invoke_graph, so a process serves its turns one  *)
(* after another; a caller of invoke_graph calls it again once it is back. *)

NextTurnKeepsTranscript ==
    /\ ~unit
    /\ pc \in {"done", "raised", "out_of_steps"}
    /\ \E m \in Messages :
          state' = [InitialState(m) EXCEPT !.messages = state.messages]
    /\ flow' = Blank
    /\ detached' = FALSE
    /\ pc' = "router"
    /\ steps' = 0
    /\ obs' = NoObs
    /\ dest' = [from |-> "none", to |-> NoneT]
    /\ errorRaised' = FALSE
    /\ result' = Blank
    /\ audit' = <<>>
    /\ act' = NoAct
    /\ status' = 0
    /\ again' = TRUE
    /\ request' = NoRequest
    /\ UNCHANGED unit
\* graph.py:167-205: invoke_graph is called again after the previous call
\* returned or raised; it builds its state dict from literals and compiles
\* a new graph
NextTurn ==
    /\ ~unit
    /\ pc \in {"done", "raised", "out_of_steps"}
    /\ \E m \in Messages : state' = InitialState(m)
    /\ flow' = Blank
    /\ detached' = FALSE
    /\ pc' = "router"
    /\ steps' = 0
    /\ obs' = NoObs
    /\ dest' = [from |-> "none", to |-> NoneT]
    /\ errorRaised' = FALSE
    /\ result' = Blank
    /\ audit' = <<>>
    /\ act' = NoAct
    /\ status' = 0
    /\ again' = TRUE
    /\ request' = NoRequest
    /\ UNCHANGED unit

SessionNext == Next \/ NextTurn

\* The turns of a process, one after another.
SessionSpec == Init /\ [][SessionNext]_vars

---------------------------------------------------------------------------
(* The request model of chat_endpoint, src/api.py.  FastAPI validates the  *)
(* body against ChatRequest before it calls the endpoint and answers 422   *)
(* when the validation fails.                                              *)

\* api.py:23: Field(min_length=1, max_length=4000) of message
message_min_length == 1
message_max_length == 4000
\* api.py:24: Field(min_length=1, max_length=100) of user_id
user_id_min_length == 1
user_id_max_length == 100

\* len(v): the characters of the text, a padded text having one space on
\* each side.
CoreLen(c) ==
    CASE c = "" -> 0
      [] c = "u1" -> 2
      [] c = "bye" -> 3
      [] c = "12 34" -> 5
      [] c = "123456" -> 6
      [] c = "please schedule a call" -> 22
      [] c = "what services does infinitepay offer" -> 36
      [] c = "<101 letters>" -> 101
      [] c = "<4001 letters>" -> 4001
TextLen(t) == CoreLen(t.core) + (IF t.pad THEN 2 ELSE 0)

\* v.replace(" ", "")
Unspaced(t) ==
    [t EXCEPT !.pad = FALSE,
              !.core = CASE @ = "12 34" -> "1234"
                         [] @ = "please schedule a call" -> "pleasescheduleacall"
                         [] @ = "what services does infinitepay offer" ->
                                "whatservicesdoesinfinitepayoffer"
                         [] OTHER -> @]
\* v.isdigit()
IsDigit(t) == ~t.pad /\ t.core \in {"123456", "1234"}

ValidMessageSpacedDigits(v) ==
    /\ TextLen(v) >= message_min_length
    /\ TextLen(v) <= message_max_length
    /\ Strip(v).core # ""
    /\ ~IsDigit(Strip(v))
\* api.py:23,26-37: the length limits and validate_message
ValidMessage(v) ==
    /\ TextLen(v) >= message_min_length
    /\ TextLen(v) <= message_max_length
    /\ Strip(v).core # ""
    /\ ~IsDigit(Unspaced(Strip(v)))

\* api.py:24,39-43: the length limits and validate_user_id
ValidUserId(v) ==
    /\ TextLen(v) >= user_id_min_length
    /\ TextLen(v) <= user_id_max_length
    /\ Truthy(Strip(v))

\* api.py:37,43: the validators return v.strip()
ChatRequest(req) ==
    [message |-> Strip(req.message), user_id |-> Strip(req.user_id)]

\* Bodies posted to /chat.
RequestMessages ==
    {Lit(""), Text("", FALSE, TRUE), Lit("123456"), Lit("12 34"),
     Lit("<4001 letters>"),
     Text("please schedule a call", FALSE, TRUE),
     Lit("what services does infinitepay offer"),
     Text("bye", TRUE, TRUE)}
UserIds ==
    {Lit("u1"), Text("u1", FALSE, TRUE), Lit(""), Text("", FALSE, TRUE),
     Lit("<101 letters>")}
Requests == [message : RequestMessages, user_id : UserIds]

\* main_testcase.py:40-73: a request served with invoke_graph replaced by a
\* stub that returns a value that is not a dict, or raises
StubRequest ==
    [message |-> Lit("what services does infinitepay offer"), user_id |-> Lit("u1")]

\* api.py:22-44,60-61: the body is validated; a valid one is handed to
\* chat_endpoint, which calls invoke_graph(request.message)
ValidateRequest ==
    /\ pc = "request"
    /\ IF ValidMessage(request.message) /\ ValidUserId(request.user_id)
       THEN /\ state' = InitialState(ChatRequest(request).message)
            /\ pc' = "router"
            /\ status' = 0
       ELSE /\ pc' = "rejected"
            /\ status' = 422
            /\ UNCHANGED state
    /\ UNCHANGED <<flow, detached, steps, obs, dest, errorRaised, result,
                   audit, act, unit, again, request>>

\* A request arrives at /chat; or chat_endpoint has called a stub of
\* invoke_graph, which returned or raised.
ApiInit ==
    /\ unit = FALSE
    /\ again = FALSE
    /\ state = Blank
    /\ flow = Blank
    /\ detached = FALSE
    /\ steps = 0
    /\ obs = NoObs
    /\ dest = [from |-> "none", to |-> NoneT]
    /\ errorRaised = FALSE
    /\ audit = <<>>
    /\ act = NoAct
    /\ status = 0
    /\ \/ /\ pc = "request"
          /\ request \in Requests
          /\ result = Blank
       \/ /\ pc = "done"
          /\ request = StubRequest
          /\ result = NotADict
       \/ /\ pc = "raised"
          /\ request = StubRequest
          /\ result = Blank

ApiNext == Next \/ ValidateRequest

\* The requests of /chat, each served by one turn.
ApiSpec == ApiInit /\ [][ApiNext]_vars

---------------------------------------------------------------------------
(* Properties *)

Known == {Lit("knowledge"), Lit("support"), Lit("end")}

\* The state right after a router activation, before its edge is taken.
AfterRouter == pc = "route_edge"
\* The state right after the edge out of the router.
AfterRouterEdge ==
    dest.from = "route_edge" /\ pc \in {"knowledge", "support", "router", "__end__"}
\* The state right after the edge out of personality.
AfterPersonalityEdge ==
    dest.from = "personality_edge" /\ pc \in {"router", "__end__"}

FastPathEffect ==
    /\ obs.kind = "fast"
    /\ Cur.next = END
    /\ ~Cur.conversation_active
    /\ Cur.tool_outputs.router_llm = <<>>

\* C1 (as claimed): a router activation whose input, lowercased and trimmed,
\* is an end token sets conversation_active false and next to END without a
\* completion call.
C1_TrimmedEndToken ==
    AfterRouter /\ Strip(Lower(obs.input)) \in EndTokens => FastPathEffect

\* C1 (amended): a router activation whose input, lowercased, is an end token
\* sets conversation_active false and next to END without a completion call;
\* the input is not trimmed.
C1_LoweredEndToken ==
    AfterRouter /\ Lower(obs.input) \in EndTokens => FastPathEffect

C1_Witness ==
    AfterRouter /\ obs.input.up /\ Lower(obs.input) \in EndTokens /\ FastPathEffect

\* C2: the edge out of the router goes to END with conversation_active and
\* needs_followup both true only after the fast path or an "end" reply.
C2_LoopPrevention ==
    (AfterRouterEdge /\ dest.to = END /\ GetActive(Cur) /\ GetFollowup(Cur))
        => \/ obs.kind = "fast"
           \/ obs.kind = "reply" /\ obs.reply = Lit("end")

\* C3: after a completion reply whose normalized text is none of knowledge,
\* support, end, the executor dispatches the support worker.
C3_UnknownReplyToSupport ==
    (AfterRouterEdge /\ obs.kind = "reply" /\ obs.reply \notin Known)
        => dest.to = Lit("support") /\ pc = "support"

C3_Witness ==
    AfterRouterEdge /\ obs.kind = "reply" /\ obs.reply = Lit("__end__")
        /\ pc = "support"

\* C4: a router activation whose normalized reply is "end" finishes with
\* next = END, conversation_active false and needs_followup false.
C4_EndReplyWins ==
    (AfterRouter /\ obs.kind = "reply" /\ obs.reply = Lit("end"))
        => Cur.next = END /\ ~Cur.conversation_active /\ ~Cur.needs_followup

C4_Witness ==
    AfterRouter /\ obs.kind = "reply" /\ obs.reply = Lit("end") /\ Cur.next = END

\* C5: after every router activation next is knowledge, support or END.
C5_NextIsLegal ==
    AfterRouter
        => Has(Cur, "next") /\ Cur.next \in {Lit("knowledge"), Lit("support"), END}

C5_Witness == AfterRouter /\ obs.kind = "fail" /\ Cur.next = Lit("support")

\* C6: when the router's completion call fails, error holds the exception
\* text, next is support, and the executor dispatches the support worker.
C6_FailureRoutesToSupport ==
    /\ (AfterRouter /\ obs.kind = "fail")
           => Cur.error = obs.reply /\ Cur.next = Lit("support")
    /\ (AfterRouterEdge /\ obs.kind = "fail")
           => dest.to = Lit("support") /\ pc = "support"

\* The destination the edge out of the router takes for a value of next,
\* as C7 states it.
DestinationOfNext(n) ==
    LET m == Strip(Lower(n))
    IN  IF ~Truthy(n) THEN Lit("support")
        ELSE IF m \in {Lit("end"), Lit("__end__")} THEN END
        ELSE IF m \in {Lit("knowledge"), Lit("support"), Lit("router")} THEN m
        ELSE Lit("support")

\* C7: the destination of the edge out of the router is determined by next
\* alone, and an empty next is rewritten to support.
C7_EdgeByNext ==
    [][pc = "route_edge"
          => /\ dest'.to = DestinationOfNext(GetNext(Cur))
             /\ pc' = DestinationOfNext(GetNext(Cur)).core
             /\ ~Truthy(GetNext(Cur))
                   => (IF detached' THEN flow' ELSE state').next = Lit("support")]_vars

\* C8: once a step of the turn has set error, the edge out of personality
\* ends the turn.
C8_ErrorEndsTurn ==
    (AfterPersonalityEdge /\ errorRaised) => dest.to = END /\ pc = "__end__"

\* C9: every turn reaches END; the executor never runs out of steps with a
\* node still to run.
C9_ReachesTerminal == pc # "out_of_steps"

\* The payload of a successful worker and formatter, with no natural-ending
\* phrase in the reply the formatter appended, and needs_followup true.
CleanPayload(d) ==
    /\ Has(d, "error") /\ ~Truthy(d.error)
    /\ Has(d, "response")
    /\ ~\E i \in EndIndicators : Contains(Lower(d.response), i)
    /\ GetFollowup(d)

\* C10: for such a payload the continuation policy resets is_complete,
\* overwrites input with the follow-up prompt and hands over to the router.
C10_FollowUpLoop ==
    (AfterPersonalityEdge /\ CleanPayload(flow))
        => /\ flow.conversation_active /\ flow.needs_followup
           /\ Has(flow, "is_complete") /\ ~flow.is_complete
           /\ Has(flow, "input") /\ flow.input = FollowUpPrompt
           /\ dest.to = Lit("router") /\ pc = "router"

C10_Witness ==
    AfterPersonalityEdge /\ CleanPayload(flow) /\ pc = "router"
        /\ flow.input = FollowUpPrompt /\ Truthy(flow.response)

\* The payload of a successful personality activation, after its edge ran.
AfterFormatterOk ==
    AfterPersonalityEdge /\ act.node = "personality" /\ act.kind = "ok"

\* C11: when the continuation policy runs with no error set and the reply the
\* formatter just appended, lowercased, contains a natural-ending phrase, the
\* turn ends instead of looping back, even when needs_followup is true.
C11_EndingPhraseEndsTurn ==
    (AfterFormatterOk
       /\ ~Truthy(GetError(Cur))
       /\ \E i \in EndIndicators : Contains(Lower(Cur.response), i))
    => dest.to = END


Workers == {"knowledge", "support"}

\* C12: the first step is the router; a worker runs only right after a router
\* activation (through the router's edge); personality runs right after every
\* worker activation and at no other time; after personality exactly one
\* successor is taken, the router or the end of the turn.
C12_StepOrder ==
    /\ (steps = 0 => pc = "router")
    /\ [][/\ (pc' \in Workers /\ pc' # pc) => pc = "route_edge"
          /\ pc = "route_edge" => pc' \in Workers \cup {"router", "__end__"}
          /\ (pc \in Workers /\ pc' # pc) => pc' = "personality"
          /\ (pc' = "personality" /\ pc' # pc) => pc \in Workers
          /\ (pc = "personality" /\ pc' # pc) => pc' = "personality_edge"
          /\ pc = "personality_edge" => pc' \in {"router", "__end__"}]_vars


SixFields ==
    {"response", "source_agent_response", "agent_workflow",
     "conversation_active", "needs_followup", "error"}

\* C13: every payload invoke_graph returns has the six fields response,
\* source_agent_response, agent_workflow, conversation_active, needs_followup
\* and error, on every path through the graph; when app.invoke's value is not
\* a dict the payload carries an error and conversation_active false.
C13_PayloadComplete ==
    pc = "done" =>
        /\ SixFields \subseteq result.keys
        /\ (detached /\ ~IsDict(flow)) =>
               Truthy(result.error) /\ ~result.conversation_active
C13_Witness ==
    /\ pc = "done"
    /\ detached /\ ~IsDict(flow)
    /\ SixFields \subseteq result.keys
    /\ result.error = Text("invalid result type", TRUE, FALSE)


\* C14: for every message that passes request validation (chat_endpoint hands
\* invoke_graph the trimmed message), whichever step fails, chat_endpoint
\* answers with a payload that has the six fields and a non-empty response,
\* not with an error status.
C14_ChatAlwaysAnswers ==
    (/\ status # 0
     /\ ~state.input.pad
     /\ errorRaised \/ obs.kind = "fail" \/ pc = "raised") =>
        /\ status = 200
        /\ pc = "done"
        /\ Truthy(ChatResponse(result).response)
        /\ SixFields \subseteq DOMAIN ChatResponse(result)


\* The dict a personality activation has just returned.
FormatterReturned ==
    /\ act.node = "personality"
    /\ pc \in {"personality_edge", "returned"}

\* C15: personality_agent returns a payload on every state and completion
\* outcome and raises nothing; when the completion call fails the payload has
\* the fixed apology as response, the extracted original reply as
\* source_agent_response, one synthetic error entry as agent_workflow,
\* conversation_active true and needs_followup true.
C15_FormatterFallback ==
    /\ (pc = "personality" /\ steps < MaxSteps) => ENABLED Personality
    /\ FormatterReturned =>
          {"response", "source_agent_response", "agent_workflow",
           "conversation_active", "needs_followup"} \subseteq flow.keys
    /\ (FormatterReturned /\ act.kind = "fail") =>
          /\ flow.response = PersonalityApology
          /\ flow.source_agent_response = act.out
          /\ flow.agent_workflow = <<Entry("error", "None", NoneT, NoneT)>>
          /\ flow.conversation_active
          /\ flow.needs_followup
C15_Witness ==
    /\ FormatterReturned
    /\ act.kind = "fail"
    /\ flow.response = PersonalityApology
    /\ Truthy(flow.source_agent_response)


\* C16: given a state whose agent_outcome is unset and whose transcript is
\* empty, personality_agent returns a payload whose response is non-empty
\* and whose conversation_active is true.
C16_EmptyStateGetsResponse ==
    (/\ pc = "returned"
     /\ act.node = "personality"
     /\ act.before = 0
     /\ state.agent_outcome = NoOutcome) =>
        Truthy(flow.response) /\ flow.conversation_active


IsPrefix(a, b) == Len(a) <= Len(b) /\ SubSeq(b, 1, Len(a)) = a

\* The workflow_history of the dict the next step receives.
SeenHistory == IF Has(Cur, "workflow_history") THEN Cur.workflow_history ELSE <<>>

\* C17: within a turn the workflow_history each successive step sees never
\* gets shorter and keeps every entry it had, also across the loop-back from
\* personality to the router.
C17_HistoryOnlyGrows ==
    [][pc \notin {"__end__", "done"} => IsPrefix(SeenHistory, SeenHistory')]_vars


\* The entries of a occur in b in the same order.
RECURSIVE IsSubsequence(_, _)
IsSubsequence(a, b) ==
    IF a = <<>> THEN TRUE
    ELSE IF b = <<>> THEN FALSE
    ELSE IF Head(a) = Head(b) THEN IsSubsequence(Tail(a), Tail(b))
    ELSE IsSubsequence(a, Tail(b))

\* C18: the agent_workflow of the payload returned at the end of the turn
\* holds, in order, every workflow entry appended by every step activation of
\* the turn, those before a loop-back included.
C18_WorkflowIsWholeAudit ==
    (pc = "done" /\ ~unit) => IsSubsequence(audit, result.agent_workflow)


\* The dict a worker has just returned after its executor succeeded.
WorkerSucceeded ==
    pc = "personality" /\ act.node \in Workers /\ act.kind = "ok"

\* The entries of q that satisfy Test.
Count(q, Test(_)) == Len(SelectSeq(q, Test))

\* C19: every successful tool call made during a worker activation appends
\* exactly one entry to tool_outputs[tool] and one entry to tool_usage, both
\* with the call's input and output.
C19_ToolCallsLedgered ==
    WorkerSucceeded =>
        \A i \in 1..Len(act.calls) :
            LET c == act.calls[i]
            IN  /\ Count(Cur.tool_outputs[c.tool],
                         LAMBDA e : e.output = c.out
                                    /\ e.input = ToolArguments(c.tool)) = 1
                /\ Count(Cur.tool_usage,
                         LAMBDA e : e.tool = c.tool /\ e.output = c.out
                                    /\ e.input = ToolArguments(c.tool)) = 1


\* C20: a worker activation that succeeds appends exactly one assistant
\* message holding the final answer, sets agent_outcome, sets error to None,
\* needs_followup to true and is_complete to true.
C20_WorkerSuccess ==
    WorkerSucceeded =>
        /\ {"messages", "agent_outcome", "error", "needs_followup",
            "is_complete"} \subseteq Cur.keys
        /\ Len(Cur.messages) = act.before + 1
        /\ LastMessage(Cur) \in {act.out, [act.out EXCEPT !.sfx = TRUE]}
        /\ Cur.agent_outcome # NoOutcome
        /\ Cur.agent_outcome.output = act.out
        /\ Cur.error = NoneT
        /\ Cur.needs_followup
        /\ Cur.is_complete
C20_Witness ==
    /\ WorkerSucceeded
    /\ act.node = "support"
    /\ Len(Cur.messages) = 1
    /\ LastMessage(Cur) = [act.out EXCEPT !.sfx = TRUE]
    /\ Cur.is_complete


\* The dict a worker has just left after one of its failure paths, returned
\* or, when the worker raised, as the exception found it.
WorkerFailed ==
    /\ act.node \in Workers
    /\ act.kind \in {"fail", "load_error", "missing", "raised"}
    /\ pc \in {"personality", "raised"}

\* C21: a worker activation that fails, on every failure path of either
\* worker, appends exactly one assistant apology message, sets error, leaves
\* agent_outcome unset and sets needs_followup to true.
C21_WorkerFailure ==
    WorkerFailed =>
        /\ pc = "personality"
        /\ Len(Cur.messages) = act.before + 1
        /\ Has(Cur, "error") /\ Truthy(Cur.error)
        /\ Cur.agent_outcome = NoOutcome
        /\ Has(Cur, "needs_followup") /\ Cur.needs_followup


\* A support activation with schedule_call intent that read a customer file
\* whose request_data lacks some of the three call fields.
CallWithMissingFields ==
    /\ act.node = "support"
    /\ pc \in {"personality", "raised"}
    /\ Intent(Cur.input) = "schedule_call"
    /\ act.file.ok /\ ~act.file.broken
    /\ act.file.missing # {}

\* The message of support.py:161-162 for each set of absent fields.
PleaseProvide(missing) ==
    CASE missing = {"preferred time", "preferred date"} ->
            "please provide: preferred time, preferred date"
      [] missing = {"preferred time", "issue summary", "preferred date"} ->
            "please provide: preferred time, issue summary, preferred date"
      [] OTHER -> "<not a file of the model>"

\* C22: a support activation with schedule_call intent in which any of issue
\* summary, preferred date, preferred time is absent appends a message that
\* lists exactly the absent fields, sets needs_followup to true and returns
\* without a completion call and without a tool call.
C22_MissingFieldsShortCircuit ==
    CallWithMissingFields =>
        /\ pc = "personality"
        /\ act.kind = "missing"
        /\ act.calls = <<>>
        /\ Len(Cur.messages) = act.before + 1
        /\ LastMessage(Cur).core = PleaseProvide(act.file.missing)
        /\ Cur.needs_followup
        /\ Cur.tool_usage = <<>>


\* The schedule_support_call calls of the support activation just finished.
ScheduleCalls ==
    IF WorkerSucceeded
    THEN {act.calls[i] : i \in {j \in 1..Len(act.calls) :
                                   act.calls[j].tool = "schedule_support_call"}}
    ELSE {}

OnWeekday(d) == d.ok /\ d.weekday < 5
InWindow(t) == t.ok /\ t.hour >= 9 /\ t.hour < 17

\* C23: the result of schedule_support_call is determined by the requested
\* date and time: a Monday-Friday date with a time inside 09:00-17:00 gives
\* the confirmation, a time outside the window the business-hours error, a
\* Saturday or Sunday the weekday error, a malformed date or time the format
\* error, each returned as the tool's text.
C23_ScheduleByRequest ==
    \A c \in ScheduleCalls :
        /\ (OnWeekday(c.date) /\ InWindow(c.time)) => c.out = Scheduled
        /\ (OnWeekday(c.date) /\ c.time.ok /\ ~InWindow(c.time)) => c.out = HoursError
        /\ (c.date.ok /\ ~OnWeekday(c.date) /\ InWindow(c.time)) => c.out = WeekdayError
        /\ (~c.date.ok \/ ~c.time.ok) => c.out = FormatError


\* C24: every appointment schedule_support_call confirms or records has a
\* date from Monday to Friday and a time inside the 09:00-17:00 window.
C24_BookedInBusinessHours ==
    /\ \A c \in ScheduleCalls :
          c.out = Scheduled =>
              OnWeekday(c.appointment.date) /\ InWindow(c.appointment.time)
    /\ WorkerSucceeded =>
          Len(Cur.tool_outputs.schedule_support_call)
              <= Cardinality({c \in ScheduleCalls : c.out = Scheduled})
C24_Witness ==
    \E c \in ScheduleCalls :
        /\ c.out = Scheduled
        /\ c.date = Saturday
        /\ OnWeekday(c.appointment.date)


\* current_agent is the last element of a non-empty agent_stack.
StackTopIsCurrent(d) ==
    (Has(d, "agent_stack") /\ d.agent_stack # <<>>) =>
        /\ Has(d, "current_agent")
        /\ d.current_agent = d.agent_stack[Len(d.agent_stack)]

\* C25: at every step boundary of a turn and after the cleanup pass,
\* whenever agent_stack is non-empty, current_agent equals its last element.
C25_CurrentAgentIsStackTop ==
    /\ StackTopIsCurrent(Cur)
    /\ StackTopIsCurrent(state)
    /\ pc = "done" => StackTopIsCurrent(result)
C25_Witness ==
    /\ pc = "done"
    /\ Len(state.agent_stack) = 2
    /\ state.current_agent = "support"


\* invoke_graph has built its state and no node has run yet.
TurnStart == pc = "router" /\ steps = 0 /\ ~unit

---------------------------------------------------------------------------
(* The request validation of /chat *)

\* The body has been validated: accepted and handed on, or rejected.
Validated == request # NoRequest /\ pc # "request"
IsEmptyText(t) == t.core = "" /\ ~t.pad
IsWhitespaceOnly(t) == t.core = "" /\ t.pad
IsDigitsOnly(t) == t.core = "123456" /\ ~t.pad
IsDigitsAndSpaces(t) == t.core \in {"123456", "12 34"}
OverLimits(req) ==
    \/ req.message.core = "<4001 letters>"
    \/ req.user_id.core = "<101 letters>"
\* A rejected request created no state and ran no step.
RejectedBeforeTheTurn ==
    pc = "rejected" =>
        /\ status = 422
        /\ state = Blank /\ flow = Blank /\ result = Blank
        /\ steps = 0 /\ obs = NoObs /\ act = NoAct /\ audit = <<>>
\* An accepted request starts its turn on the trimmed message.
AcceptedIsTrimmed ==
    (Validated /\ TurnStart) =>
        /\ ~state.input.pad
        /\ state.input.core = request.message.core
        /\ state.input.up = request.message.up
        /\ state = InitialState(state.input)

DriverFailed ==
    \/ pc \in {"raised", "out_of_steps"}
    \/ pc = "done" /\ ~IsDict(result)

\* C28: when the turn driver returns something that is not a record, or
\* raises, chat_endpoint answers with status 500.
C28_DriverFailureIs500 ==
    (DriverFailed /\ status # 0) => status = 500


\* C29: once a step of the turn has set error, the dict the turn carries
\* keeps a non-null error, and so does the payload returned at turn end.
C29_ErrorPersists ==
    errorRaised =>
        /\ Truthy(GetError(Cur))
        /\ pc = "done" => Truthy(GetError(result))


\* The transcript of the dict the next step receives.
SeenMessages == IF Has(Cur, "messages") THEN Cur.messages ELSE <<>>

\* C30: within a turn the transcript each successive step or edge sees keeps
\* every message appended so far, in place, also after the loop-back from
\* personality to the router.
C30_TranscriptOnlyGrows ==
    [][(pc \in Nodes \cup {"route_edge", "personality_edge"})
          => IsPrefix(SeenMessages, SeenMessages')]_vars


---------------------------------------------------------------------------
(* The ledger and the audit trail *)

\* The tool_outputs and tool_usage of the dict the next step receives.
SeenLedger == IF Has(Cur, "tool_outputs") THEN Cur.tool_outputs ELSE NoTools
SeenUsage == IF Has(Cur, "tool_usage") THEN Cur.tool_usage ELSE <<>>
ActionTools == {"create_support_ticket", "schedule_support_call"}
SupportDropsActionTools ==
    pc = "support" /\ act'.node = "support" /\ act'.kind = "fail"

\* C31: apart from the support worker's drop of its two action tools'
\* records on failure, every record of tool_outputs and tool_usage that a
\* step of the turn sees is still there, in place, for the next step.
C31_LedgerOnlyGrows ==
    [][(pc \in Nodes \cup {"route_edge", "personality_edge"}) =>
          /\ IsPrefix(SeenUsage, SeenUsage')
          /\ \A k \in DOMAIN NoTools :
                \/ SupportDropsActionTools /\ k \in ActionTools
                \/ IsPrefix(SeenLedger[k], SeenLedger'[k])]_vars


\* The workflow entries appended by the step being taken.
Appended == SubSeq(audit', Len(audit) + 1, Len(audit'))
\* A node is activated and returns.
Activation == pc \in Nodes /\ steps' = steps + 1 /\ pc' # "raised"

\* C32: every step activation that returns has appended, under its own
\* name, an entry for its start and a further entry for its completion or
\* its error.
C32_EveryExitAudited ==
    [][Activation =>
          /\ Len(Appended) >= 2
          /\ \A i \in 1..Len(Appended) : Appended[i].agent_name = pc]_vars


\* The last workflow entry appended in the turn.
LastAudit == audit[Len(audit)]

\* C33: after every router activation whose completion call succeeded, the
\* last entry appended is the router's complete_routing entry and its output
\* is the decision the activation left in next.
C33_AuditedDecisionIsNext ==
    (AfterRouter /\ obs.kind = "reply") =>
        /\ audit # <<>>
        /\ LastAudit.agent_name = "router"
        /\ LastAudit.action = "complete_routing"
        /\ LastAudit.output = Cur.next

\* An unknown reply was mapped to support: the entry and next both say so.
C33_Witness ==
    /\ AfterRouter /\ obs.kind = "reply"
    /\ obs.reply = Lit("billing")
    /\ LastAudit.action = "complete_routing"
    /\ LastAudit.output = Lit("support")
    /\ Cur.next = Lit("support")


---------------------------------------------------------------------------
(* The end of the turn *)

\* invoke_graph runs cleanup_state and returns.
CleanupPass == pc = "__end__" /\ pc' = "done"
ButLast(q) == SubSeq(q, 1, Len(q) - 1)

\* C34: the cleanup pass at turn end pops the top of agent_stack and makes
\* current_agent the new top, or none when the stack is left empty; it
\* empties both scratch contexts if is_complete; and it leaves
\* conversation_active false if error is set or if needs_followup is false
\* with no queued task.
C34_CleanupPass ==
    [][CleanupPass =>
          /\ state.agent_stack # <<>> =>
                /\ state'.agent_stack = ButLast(state.agent_stack)
                /\ state'.current_agent =
                      IF state'.agent_stack = <<>> THEN "None"
                      ELSE state'.agent_stack[Len(state'.agent_stack)]
          /\ state.is_complete =>
                state'.knowledge_context = "{}" /\ state'.support_context = "{}"
          /\ Truthy(state.error) => ~state'.conversation_active
          /\ (~state.needs_followup /\ state.task_list = <<>>)
                => ~state'.conversation_active]_vars

\* The cleanup pass ran on a state with an error, two agents on the stack
\* and conversation_active still true.
C34_Witness ==
    /\ pc = "done" /\ ~unit
    /\ Truthy(state.error)
    /\ ~state.conversation_active
    /\ state.agent_stack # <<>>
    /\ state.current_agent = state.agent_stack[Len(state.agent_stack)]


\* knowledge_context is {} and support_context holds no ticket and no
\* appointment, beside its interaction history.
ContextsCleared(d) ==
    /\ Has(d, "knowledge_context") /\ d.knowledge_context = "{}"
    /\ Has(d, "support_context") /\ d.support_context = "cleared"

\* C35: whenever the edge out of personality ends the turn, for an error, a
\* natural-ending phrase or needs_followup false, it leaves knowledge_context
\* cleared and support_context with its ticket and appointment cleared.
C35_TerminalClearsContexts ==
    (AfterPersonalityEdge /\ dest.to = END) => ContextsCleared(Cur)


\* The support worker's executor, or its reading of the customer record,
\* raised inside the worker's try.
SupportExecutionFails ==
    pc = "support" /\ act'.node = "support" /\ act'.kind = "fail"

RagCalls == IF act.node = "knowledge" THEN act.calls ELSE <<>>

\* C37: a rag_search call whose retrieval fails, at the index load, the
\* index build or the query, returns an error text to the executor and does
\* not leave the tool by an exception that reaches the worker.
C37_RetrievalFailureIsText ==
    \A i \in 1..Len(RagCalls) :
        RagCalls[i].fault # "none" =>
            /\ ~RagCalls[i].raised
            /\ RagCalls[i].out = RagSearchError


\* The decision the router's mapping gives for a normalized reply.
DecisionFor(reply) ==
    IF reply = Lit("end") THEN END
    ELSE IF reply \in {Lit("knowledge"), Lit("support")} THEN reply
    ELSE Lit("support")

\* C38: after every router activation whose completion call succeeded, next
\* is the decision for that activation's normalized reply, whatever earlier
\* steps of the turn left in the state.
C38_DecisionByReplyOnly ==
    (AfterRouter /\ obs.kind = "reply") => Cur.next = DecisionFor(obs.reply)

\* A router activation after a loop-back, the support worker having run in
\* the pass before, decided knowledge for the reply knowledge.
C38_Witness ==
    /\ AfterRouter /\ obs.kind = "reply" /\ steps > 1
    /\ act.node = "personality"
    /\ \E i \in 1..Len(audit) : audit[i].agent_name = "support"
    /\ obs.reply = Lit("knowledge")
    /\ Cur.next = Lit("knowledge")


\* C39: whenever the payload invoke_graph returns has a non-null error, its
\* conversation_active is false.
C39_ErrorPayloadInactive ==
    (pc = "done" /\ IsDict(result) /\ Truthy(GetError(result)))
        => ~result.conversation_active


\* The request's message, trimmed, is an end token in any letter case, and
\* chat_endpoint has answered.
EndTokenTurnAnswered ==
    /\ Validated /\ pc # "rejected"
    /\ Lower(Strip(request.message)) \in EndTokens
    /\ status # 0
\* One router activation on the fast path and nothing else.
OnlyTheClassifierRan ==
    /\ pc = "done" /\ steps = 1
    /\ obs.kind = "fast"
    /\ act = NoAct
    /\ \A i \in 1..Len(audit) : audit[i].agent_name = "router"
    /\ result.tool_outputs.router_llm = <<>>
    /\ result.tool_outputs.personality_llm = <<>>

\* C40: a turn whose message is an end token runs the router once, with no
\* completion call, no worker and no formatter, and chat_endpoint answers
\* with a payload whose conversation_active is false, not an error status.
C40_EndTokenTurn ==
    EndTokenTurnAnswered =>
        /\ OnlyTheClassifierRan
        /\ ~result.conversation_active
        /\ status = 200

===========================================================================
